---- MODULE Spec2Model ----
(***************************************************************************)
(* Model of the data-shaping pipeline of llm-tuning-lab:                   *)
(*   lab/loader.py          load_tool_catalogue                            *)
(*   lab/constants.py       TOOL_PREAMBLE                                  *)
(*   lab/data_processor.py  load_session_files, inject_system_additions,   *)
(*                          process_session_turn, load_training_data       *)
(*                                                                         *)
(* Text (a Python str) is a sequence of atoms; an atom is an indivisible   *)
(* piece of text (a word, a tag delimiter, a newline, a quote).  Python    *)
(* objects produced by json.loads are tagged records (JNull, JBool, JStr,  *)
(* JList, JObj); a dict keeps its keys in insertion order.  Numbers do not *)
(* occur in the documents the model enumerates.                            *)
(***************************************************************************)
EXTENDS Integers, Sequences, FiniteSets, TLC

VARIABLES
    data_dir_exists,   \* Path(data_dir).exists()
    fs,                \* session file path -> its lines (each line a text)
    catalogue,         \* data/tool_catalogue.json: "missing" or its text
    file_patterns,     \* argument file_patterns of load_training_data
    inject_preamble,   \* argument inject_preamble
    inject_catalog,    \* argument inject_catalog
    pc,                \* position of the generator load_training_data
    pattern_idx,       \* 1-based index of the pattern being processed
    files,             \* sorted file list of the current pattern
    file_idx,          \* 1-based index into files
    line_num,          \* line_num of the last line read from the open file
    yielded,           \* the examples yielded so far, each with the pattern,
                       \* file and line it came from
    warnings,          \* the warnings printed so far: text, file and line, and
                       \* the pattern being processed
    raised,            \* the exception that left the generator and the call it came from
    turn_data,         \* argument of a direct call of process_session_turn
    result,            \* outcome of that call
    previous,          \* outcome of the call before it, when the call is repeated
    prompt,            \* argument system_prompt of a direct call of inject_system_additions
    injected,          \* outcome of that call
    eval_files,        \* config.data.eval_files of prepare_datasets
    train_examples,    \* the list loaded for the training patterns
    eval_examples,     \* what the loader yields for the patterns of eval_files
    train_data,        \* the training split
    eval_data,         \* the evaluation split
    examples,          \* argument of show_statistics
    report             \* outcome of show_statistics

vars == <<data_dir_exists, fs, catalogue, file_patterns, inject_preamble,
          inject_catalog, pc, pattern_idx, files, file_idx, line_num,
          yielded, warnings, raised, turn_data, result, previous, prompt, injected,
          eval_files, train_examples, eval_examples, train_data, eval_data,
          examples, report>>

-----------------------------------------------------------------------------
(* Python objects as json.loads builds them.                               *)

JNull == [t |-> "null"]
JBool(b) == [t |-> "bool", b |-> b]
JStr(s) == [t |-> "str", s |-> s]
JList(items) == [t |-> "list", items |-> items]
JObj(keys, vals) == [t |-> "obj", keys |-> keys, vals |-> vals]

IsDict(v) == v.t = "obj"
IsList(v) == v.t = "list"
IsStr(v) == v.t = "str"

\* key in d (a key is a text)
HasKey(d, k) == \E i \in 1..Len(d.keys) : d.keys[i] = k

\* d[k] for a key that is present
GetItem(d, k) == d.vals[CHOOSE i \in 1..Len(d.keys) : d.keys[i] = k]

\* d.get(k, default)
Get(d, k, default) == IF HasKey(d, k) THEN GetItem(d, k) ELSE default

\* d[k] = v on a dict under construction: a repeated key keeps its place
SetItem(d, k, v) ==
    IF HasKey(d, k)
    THEN JObj(d.keys, [i \in 1..Len(d.keys) |-> IF d.keys[i] = k THEN v ELSE d.vals[i]])
    ELSE JObj(Append(d.keys, k), Append(d.vals, v))

\* bool(v): the truth value Python gives an object in `if v:`
Truthy(v) ==
    CASE v.t = "null" -> FALSE
      [] v.t = "bool" -> v.b
      [] v.t = "str"  -> Len(v.s) > 0
      [] v.t = "list" -> Len(v.items) > 0
      [] v.t = "obj"  -> Len(v.keys) > 0

\* len(v) where defined
PyLen(v) ==
    CASE v.t = "str"  -> Len(v.s)
      [] v.t = "list" -> Len(v.items)
      [] v.t = "obj"  -> Len(v.keys)

\* "\n\n".join(parts) and friends: parts joined with sep between them
RECURSIVE Join(_, _)
Join(sep, parts) ==
    IF Len(parts) = 0 THEN <<>>
    ELSE IF Len(parts) = 1 THEN parts[1]
    ELSE parts[1] \o sep \o Join(sep, Tail(parts))

-----------------------------------------------------------------------------
(* json.dumps                                                               *)

\* the escapes json.dumps applies inside a string literal
EscapeAtom(a) ==
    CASE a = "\"" -> "\\\""
      [] a = "\\" -> "\\\\"
      [] a = "\n" -> "\\n"
      [] OTHER    -> a

\* the inverse, applied by json.loads
UnescapeAtom(a) ==
    CASE a = "\\\"" -> "\""
      [] a = "\\\\" -> "\\"
      [] a = "\\n"  -> "\n"
      [] OTHER      -> a

DumpsStr(s) == <<"\"">> \o [i \in 1..Len(s) |-> EscapeAtom(s[i])] \o <<"\"">>

\* one atom of two spaces per indentation level (indent=2)
RECURSIVE Indent(_)
Indent(level) == IF level = 0 THEN <<>> ELSE <<"  ">> \o Indent(level - 1)

\* json.dumps(v, indent=2) at nesting depth `level`
RECURSIVE DumpsIndented(_, _)
DumpsIndented(v, level) ==
    CASE v.t = "null" -> <<"null">>
      [] v.t = "bool" -> IF v.b THEN <<"true">> ELSE <<"false">>
      [] v.t = "str"  -> DumpsStr(v.s)
      [] v.t = "list" ->
            IF Len(v.items) = 0 THEN <<"[", "]">>
            ELSE <<"[", "\n">> \o Indent(level + 1)
                 \o Join(<<",", "\n">> \o Indent(level + 1),
                         [i \in 1..Len(v.items) |-> DumpsIndented(v.items[i], level + 1)])
                 \o <<"\n">> \o Indent(level) \o <<"]">>
      [] v.t = "obj"  ->
            IF Len(v.keys) = 0 THEN <<"{", "}">>
            ELSE <<"{", "\n">> \o Indent(level + 1)
                 \o Join(<<",", "\n">> \o Indent(level + 1),
                         [i \in 1..Len(v.keys) |->
                             DumpsStr(v.keys[i]) \o <<":", " ">>
                             \o DumpsIndented(v.vals[i], level + 1)])
                 \o <<"\n">> \o Indent(level) \o <<"}">>

\* json.dumps(v): one line, separators ", " and ": "
RECURSIVE Dumps(_)
Dumps(v) ==
    CASE v.t = "null" -> <<"null">>
      [] v.t = "bool" -> IF v.b THEN <<"true">> ELSE <<"false">>
      [] v.t = "str"  -> DumpsStr(v.s)
      [] v.t = "list" ->
            <<"[">> \o Join(<<",", " ">>, [i \in 1..Len(v.items) |-> Dumps(v.items[i])])
            \o <<"]">>
      [] v.t = "obj"  ->
            <<"{">> \o Join(<<",", " ">>,
                           [i \in 1..Len(v.keys) |->
                               DumpsStr(v.keys[i]) \o <<":", " ">> \o Dumps(v.vals[i])])
            \o <<"}">>

-----------------------------------------------------------------------------
(* json.loads: a recursive-descent parser over the atoms of a text.  A     *)
(* parse returns [ok, val, pos]: whether a value was read, the value, and   *)
(* the position after it.                                                   *)

Whitespace == {" ", "  ", "\n"}

ParseFail == [ok |-> FALSE, val |-> JNull, pos |-> 0]
ParseOk(v, p) == [ok |-> TRUE, val |-> v, pos |-> p]

RECURSIVE SkipWs(_, _)
SkipWs(t, i) == IF i <= Len(t) /\ t[i] \in Whitespace THEN SkipWs(t, i + 1) ELSE i

\* a string literal whose opening quote is at t[i]
ParseString(t, i) ==
    LET closing == {j \in (i + 1)..Len(t) : t[j] = "\""} IN
    IF closing = {} THEN ParseFail
    ELSE LET j == CHOOSE c \in closing : \A d \in closing : c <= d
             body == [k \in 1..(j - i - 1) |-> t[i + k]]
         IN IF \E k \in 1..Len(body) : body[k] \in {"\n", "\\"}
            THEN ParseFail   \* control character or dangling backslash
            ELSE ParseOk(JStr([k \in 1..Len(body) |-> UnescapeAtom(body[k])]), j + 1)

RECURSIVE ParseValue(_, _)
RECURSIVE ParseElements(_, _, _)
RECURSIVE ParseMembers(_, _, _)

\* the elements of an array after "[" or ","; acc holds those read so far
ParseElements(t, i, acc) ==
    LET r == ParseValue(t, SkipWs(t, i)) IN
    IF ~r.ok THEN ParseFail
    ELSE LET j == SkipWs(t, r.pos)
             items == Append(acc, r.val)
         IN IF j > Len(t) THEN ParseFail
            ELSE IF t[j] = "]" THEN ParseOk(JList(items), j + 1)
            ELSE IF t[j] = "," THEN ParseElements(t, j + 1, items)
            ELSE ParseFail

\* the members of an object after "{" or ","; acc is the dict built so far
ParseMembers(t, i, acc) ==
    LET k == SkipWs(t, i) IN
    IF k > Len(t) \/ t[k] # "\"" THEN ParseFail
    ELSE LET key == ParseString(t, k) IN
         IF ~key.ok THEN ParseFail
         ELSE LET c == SkipWs(t, key.pos) IN
              IF c > Len(t) \/ t[c] # ":" THEN ParseFail
              ELSE LET r == ParseValue(t, SkipWs(t, c + 1)) IN
                   IF ~r.ok THEN ParseFail
                   ELSE LET j == SkipWs(t, r.pos)
                            d == SetItem(acc, key.val.s, r.val)
                        IN IF j > Len(t) THEN ParseFail
                           ELSE IF t[j] = "}" THEN ParseOk(d, j + 1)
                           ELSE IF t[j] = "," THEN ParseMembers(t, j + 1, d)
                           ELSE ParseFail

ParseValue(t, i) ==
    IF i > Len(t) THEN ParseFail
    ELSE CASE t[i] = "null"  -> ParseOk(JNull, i + 1)
           [] t[i] = "true"  -> ParseOk(JBool(TRUE), i + 1)
           [] t[i] = "false" -> ParseOk(JBool(FALSE), i + 1)
           [] t[i] = "\""    -> ParseString(t, i)
           [] t[i] = "["     ->
                 LET j == SkipWs(t, i + 1) IN
                 IF j <= Len(t) /\ t[j] = "]" THEN ParseOk(JList(<<>>), j + 1)
                 ELSE ParseElements(t, i + 1, <<>>)
           [] t[i] = "{"     ->
                 LET j == SkipWs(t, i + 1) IN
                 IF j <= Len(t) /\ t[j] = "}" THEN ParseOk(JObj(<<>>, <<>>), j + 1)
                 ELSE ParseMembers(t, i + 1, JObj(<<>>, <<>>))
           [] OTHER          -> ParseFail

\* json.loads(text): [ok, val]; ok = FALSE stands for json.JSONDecodeError
Loads(text) ==
    LET r == ParseValue(text, SkipWs(text, 1)) IN
    IF ~r.ok THEN [ok |-> FALSE, val |-> JNull]
    ELSE IF SkipWs(text, r.pos) <= Len(text)
         THEN [ok |-> FALSE, val |-> JNull]   \* extra data after the document
         ELSE [ok |-> TRUE, val |-> r.val]

-----------------------------------------------------------------------------
(* str(v) as an f-string applies it                                         *)

RECURSIVE PyRepr(_)
PyRepr(v) ==
    CASE v.t = "null" -> <<"None">>
      [] v.t = "bool" -> IF v.b THEN <<"True">> ELSE <<"False">>
      [] v.t = "str"  -> <<"'">> \o [i \in 1..Len(v.s) |-> EscapeAtom(v.s[i])] \o <<"'">>
      [] v.t = "list" ->
            <<"[">> \o Join(<<",", " ">>, [i \in 1..Len(v.items) |-> PyRepr(v.items[i])])
            \o <<"]">>
      [] v.t = "obj"  ->
            <<"{">> \o Join(<<",", " ">>,
                           [i \in 1..Len(v.keys) |->
                               PyRepr(JStr(v.keys[i])) \o <<":", " ">> \o PyRepr(v.vals[i])])
            \o <<"}">>

PyFormat(v) == IF IsStr(v) THEN v.s ELSE PyRepr(v)

-----------------------------------------------------------------------------
(* lab/constants.py                                                         *)

\* the triple-quoted text: a newline, the opening tag, the body, the closing
\* tag, a newline
TOOL_PREAMBLE ==
    <<"\n", "<TOOL_PREAMBLE>", "\n",
      "You can optionally call tools. Available tools are provided in the tools section.",
      "\n", "</TOOL_PREAMBLE>", "\n">>

-----------------------------------------------------------------------------
(* lab/loader.py                                                            *)

\* A call returns [exc, val]: the exception raised ("none" when it returns)
\* and the value returned.
Returns(v) == [exc |-> "none", val |-> v]
Throws(e) == [exc |-> e, val |-> JNull]

\* load_tool_catalogue(): cat is the catalogue file, [exists, text]
load_tool_catalogue(cat) ==
    IF ~cat.exists THEN Throws("FileNotFoundError")
    ELSE LET doc == Loads(cat.text) IN
         IF doc.ok THEN Returns(doc.val) ELSE Throws("JSONDecodeError")

-----------------------------------------------------------------------------
(* lab/data_processor.py                                                    *)

Key(name) == <<name>>

BlankLine == <<"\n", "\n">>

\* line 40 with the prompt before the preamble
inject_system_additions_PromptFirst(system_prompt, with_preamble) ==
    IF ~with_preamble THEN Returns(system_prompt)
    ELSE IF ~IsStr(system_prompt) THEN Throws("TypeError")
    ELSE Returns(JStr(Join(<<"\n", "\n">>, <<system_prompt.s, TOOL_PREAMBLE>>)))

\* str.join raises TypeError on an item that is not a str
inject_system_additions(system_prompt, with_preamble) ==
    IF ~with_preamble THEN Returns(system_prompt)
    ELSE IF ~IsStr(system_prompt) THEN Throws("TypeError")
    ELSE Returns(JStr(Join(BlankLine, <<TOOL_PREAMBLE, system_prompt.s>>)))

\* the block format without its closing tag
Block_Unclosed(role, body) == <<"<|">> \o role \o <<"|>", "\n">> \o body

\* f"<|{role}|>\n{body}\n<|end|>"
Block(role, body) == <<"<|">> \o role \o <<"|>", "\n">> \o body \o <<"\n", "<|", "end", "|>">>

\* what `for msg in messages` iterates over; [exc, val] with val a sequence
Iterate(messages) ==
    CASE messages.t = "list" -> Returns(messages.items)
      [] messages.t = "str"  -> Returns([i \in 1..Len(messages.s) |-> JStr(<<messages.s[i]>>)])
      [] messages.t = "obj"  -> Returns([i \in 1..Len(messages.keys) |-> JStr(messages.keys[i])])
      [] OTHER               -> Throws("TypeError")

\* lines 79-82 with msg.get("role", "user") and msg.get("content", "")
RECURSIVE MessageBlocks_Defaulted(_)
MessageBlocks_Defaulted(msgs) ==
    IF Len(msgs) = 0 THEN Returns(<<>>)
    ELSE LET msg == Head(msgs) IN
         IF ~IsDict(msg) THEN Throws("AttributeError")
         ELSE LET rest == MessageBlocks_Defaulted(Tail(msgs)) IN
              IF rest.exc # "none" THEN rest
              ELSE Returns(<<Block(PyFormat(Get(msg, Key("role"), JStr(<<"user">>))),
                                   PyFormat(Get(msg, Key("content"), JStr(<<>>))))>>
                           \o rest.val)

\* the loop over the messages: [exc, val] with val the blocks appended
RECURSIVE MessageBlocks(_)
MessageBlocks(msgs) ==
    IF Len(msgs) = 0 THEN Returns(<<>>)
    ELSE LET msg == Head(msgs) IN
         IF ~IsDict(msg) THEN Throws("TypeError")
         ELSE IF ~HasKey(msg, Key("role")) THEN Throws("KeyError")
         ELSE IF ~HasKey(msg, Key("content")) THEN Throws("KeyError")
         ELSE LET rest == MessageBlocks(Tail(msgs)) IN
              IF rest.exc # "none" THEN rest
              ELSE Returns(<<Block(PyFormat(GetItem(msg, Key("role"))),
                                   PyFormat(GetItem(msg, Key("content"))))>>
                           \o rest.val)

NoExample ==
    [input |-> <<>>, output |-> JNull,
     metadata |-> [has_tools |-> FALSE, num_messages |-> 0, response_type |-> "none"]]

\* The outcome of a call of process_session_turn: the exception raised or
\* "none", the TrainingExample returned, the value of the local `tools` when
\* the call ended, and the number of calls of load_tool_catalogue it made.
Raise(e, tools, loads) == [exc |-> e, example |-> NoExample, tools |-> tools, loads |-> loads]

\* lines 74-77 with json.dumps(tools) in place of json.dumps(tools, indent=2)
ToolsParts_Compact(tools) ==
    IF Truthy(tools) THEN <<Block(<<"tools">>, Dumps(tools))>> ELSE <<>>

\* lines 74-77 with `if tools is not None:` in place of `if tools:`
ToolsParts_WheneverNotNone(tools) ==
    IF tools # JNull THEN <<Block(<<"tools">>, DumpsIndented(tools, 0))>> ELSE <<>>

\* lines 74-77: the tools section, appended when `tools` is truthy
ToolsParts(tools) ==
    IF Truthy(tools) THEN <<Block(<<"tools">>, DumpsIndented(tools, 0))>> ELSE <<>>

\* line 95 with bool(tools) in place of `tools is not None`
HasTools_Truthy(tools) == Truthy(tools)

\* line 95: "has_tools": tools is not None
HasTools(tools) == tools # JNull

\* lines 88-92 with str(output_content) in place of json.dumps(output_content)
OutputText_Str(output_content) == JStr(PyFormat(output_content))

\* lines 88-92: the output text
OutputText(output_content) ==
    IF IsList(output_content) THEN JStr(Dumps(output_content)) ELSE output_content

\* line 97 with `output_content and isinstance(output_content, list)`
ResponseType_NonEmptyList(output_content) ==
    IF IsList(output_content) /\ Len(output_content.items) > 0 THEN "tool_calls" ELSE "text"

\* line 97: "response_type"
ResponseType(output_content) ==
    IF IsList(output_content) THEN "tool_calls" ELSE "text"

\* line 96 with len(input_parts) in place of len(messages), without tools
NumMessages_CountsSystem(messages) == PyLen(messages) + 1

\* line 96: "num_messages": len(messages)
NumMessages(messages) == PyLen(messages)

\* lines 68-104, once request, response, enhanced_system and tools are resolved
BuildExample(request, response, enhanced_system, tools, loads) ==
    LET messages == Get(request, Key("messages"), JList(<<>>))
        system_part == Block(<<"system">>, PyFormat(enhanced_system))
        tools_parts == ToolsParts(tools)
        iter == Iterate(messages)
    IN
    IF iter.exc # "none" THEN Raise(iter.exc, tools, loads)
    ELSE LET blocks == MessageBlocks(iter.val) IN
         IF blocks.exc # "none" THEN Raise(blocks.exc, tools, loads)
         ELSE IF ~IsDict(response) THEN Raise("AttributeError", tools, loads)
         ELSE LET input_parts == <<system_part>> \o tools_parts \o blocks.val
                  output_content == Get(response, Key("content"), JStr(<<>>))
                  output_text == OutputText(output_content)
              IN [exc |-> "none",
                  example |->
                      [input |-> Join(BlankLine, input_parts),
                       output |-> output_text,
                       metadata |->
                           [has_tools |-> HasTools(tools),
                            num_messages |-> NumMessages(messages),
                            response_type |-> ResponseType(output_content)]],
                  tools |-> tools,
                  loads |-> loads]

\* lines 62-66 with `not tools` in place of `tools is None`
ResolveTools_FalsyIsAbsent(request, with_catalog, cat) ==
    LET tools == Get(request, Key("tools"), JNull) IN
    IF with_catalog /\ ~Truthy(tools)
    THEN LET c == load_tool_catalogue(cat) IN [exc |-> c.exc, val |-> c.val, loads |-> 1]
    ELSE [exc |-> "none", val |-> tools, loads |-> 0]

\* lines 62-66: the tools of the request, or the catalogue
ResolveTools(request, with_catalog, cat) ==
    LET tools == Get(request, Key("tools"), JNull) IN
    IF with_catalog /\ tools = JNull
    THEN LET c == load_tool_catalogue(cat) IN [exc |-> c.exc, val |-> c.val, loads |-> 1]
    ELSE [exc |-> "none", val |-> tools, loads |-> 0]

process_session_turn(td, with_preamble, with_catalog, cat) ==
    IF ~IsDict(td) THEN Raise("TypeError", JNull, 0)
    ELSE IF ~HasKey(td, Key("request")) THEN Raise("KeyError", JNull, 0)
    ELSE IF ~HasKey(td, Key("response")) THEN Raise("KeyError", JNull, 0)
    ELSE LET request == GetItem(td, Key("request"))
             response == GetItem(td, Key("response"))
         IN
         IF ~IsDict(request) THEN Raise("AttributeError", JNull, 0)
         ELSE LET original_system == Get(request, Key("system"), JStr(<<>>))
                  enhanced_system == inject_system_additions(original_system, with_preamble)
              IN
              IF enhanced_system.exc # "none" THEN Raise(enhanced_system.exc, JNull, 0)
              ELSE LET tools == ResolveTools(request, with_catalog, cat) IN
                   IF tools.exc # "none" THEN Raise(tools.exc, Get(request, Key("tools"), JNull), tools.loads)
                   ELSE BuildExample(request, response, enhanced_system.val,
                                     tools.val, tools.loads)

\* process_session_turn with `request["system"] = enhanced_system` after line 60
TurnAfter_SystemWrittenBack(td, with_preamble, with_catalog, cat) ==
    IF ~IsDict(td) THEN td
    ELSE IF ~HasKey(td, Key("request")) \/ ~HasKey(td, Key("response")) THEN td
    ELSE IF ~IsDict(GetItem(td, Key("request"))) THEN td
    ELSE LET request == GetItem(td, Key("request"))
             enhanced_system ==
                 inject_system_additions(Get(request, Key("system"), JStr(<<>>)), with_preamble)
         IN IF enhanced_system.exc # "none" THEN td
            ELSE SetItem(td, Key("request"),
                         SetItem(request, Key("system"), enhanced_system.val))

\* The record turn_data refers to when the call has ended: request, tools
\* and messages are only read (.get, subscripts, json.dumps), `tools` and
\* `enhanced_system` are locals that are rebound, no statement stores into
\* turn_data or into an object reached from it.
TurnAfter(td, with_preamble, with_catalog, cat) == td

\* sorted(files): the session file paths in lexicographic order
PathOrder == <<"a.jsonl", "b.jsonl">>
Paths == {PathOrder[i] : i \in 1..Len(PathOrder)}
PathRank(p) == CHOOSE i \in 1..Len(PathOrder) : PathOrder[i] = p
Sorted(S) == SelectSeq(PathOrder, LAMBDA p : p \in S)

\* whether a glob pattern matches a path
Matches(pattern, path) ==
    CASE pattern = "*.jsonl"  -> TRUE
      [] pattern = "b*.jsonl" -> path = "b.jsonl"
      [] OTHER                -> FALSE

\* load_session_files without the check of lines 24-25: the glob of a
\* directory that does not exist is empty
load_session_files_NoExistsCheck(dir_exists, fsys, pattern) ==
    LET matched == {p \in DOMAIN fsys : Matches(pattern, p)} IN
    IF matched = {} THEN [exc |-> "ValueError", val |-> <<>>]
    ELSE [exc |-> "none", val |-> Sorted(matched)]

\* load_session_files without the check of lines 28-29
load_session_files_NoEmptyCheck(dir_exists, fsys, pattern) ==
    IF ~dir_exists THEN [exc |-> "FileNotFoundError", val |-> <<>>]
    ELSE [exc |-> "none", val |-> Sorted({p \in DOMAIN fsys : Matches(pattern, p)})]

\* load_session_files returning the files in an order glob may produce
\* (here: descending) instead of sorted(files)
load_session_files_Unsorted(dir_exists, fsys, pattern) ==
    IF ~dir_exists THEN [exc |-> "FileNotFoundError", val |-> <<>>]
    ELSE LET matched == {p \in DOMAIN fsys : Matches(pattern, p)}
             ascending == Sorted(matched)
         IN IF matched = {} THEN [exc |-> "ValueError", val |-> <<>>]
            ELSE [exc |-> "none",
                  val |-> [i \in 1..Len(ascending) |-> ascending[Len(ascending) + 1 - i]]]

\* load_session_files(data_dir, pattern): [exc, val] with val the sorted list
load_session_files(dir_exists, fsys, pattern) ==
    IF ~dir_exists THEN [exc |-> "FileNotFoundError", val |-> <<>>]
    ELSE LET matched == {p \in DOMAIN fsys : Matches(pattern, p)} IN
         IF matched = {} THEN [exc |-> "ValueError", val |-> <<>>]
         ELSE [exc |-> "none", val |-> Sorted(matched)]

\* line.strip() is empty
IsBlank(line) == \A i \in 1..Len(line) : line[i] \in Whitespace

\* What the try statement of lines 134-141 does with one non-blank line:
\* [act, example, warning, exc] with act "yield", "warn" (an except clause
\* printed the warning) or "raise" (the exception leaves the generator).
Yield(example) == [act |-> "yield", example |-> example, warning |-> "", exc |-> "none"]
Warn(text) == [act |-> "warn", example |-> NoExample, warning |-> text, exc |-> "none"]
Propagate(exc) == [act |-> "raise", example |-> NoExample, warning |-> "", exc |-> exc]

\* the try statement without the except clause of lines 140-141
HandleOutcome_KeyErrorEscapes(r) ==
    CASE r.exc = "none"            -> Yield(r.example)
      [] r.exc = "JSONDecodeError" -> Warn("Skipping invalid JSON")
      [] OTHER                     -> Propagate(r.exc)

\* lines 136-141: r is the outcome of process_session_turn
HandleOutcome(r) ==
    CASE r.exc = "none"            -> Yield(r.example)
      [] r.exc = "JSONDecodeError" -> Warn("Skipping invalid JSON")
      [] r.exc = "KeyError"        -> Warn("Missing required key")
      [] OTHER                     -> Propagate(r.exc)

\* lines 135-139: doc is the outcome of json.loads(line)
HandleDocument(doc, with_preamble, with_catalog, cat) ==
    IF ~doc.ok THEN Warn("Skipping invalid JSON")
    ELSE HandleOutcome(process_session_turn(doc.val, with_preamble, with_catalog, cat))

HandleLine(line, with_preamble, with_catalog, cat) ==
    HandleDocument(Loads(line), with_preamble, with_catalog, cat)

-----------------------------------------------------------------------------
(* The inputs the model enumerates.                                         *)

MaxPatterns == 2   \* longest file_patterns list
MaxLines == 2      \* most lines in all the session files together
MaxMessages == 2   \* longest request.messages list

Obj1(k1, v1) == JObj(<<Key(k1)>>, <<v1>>)
Obj2(k1, v1, k2, v2) == JObj(<<Key(k1), Key(k2)>>, <<v1, v2>>)
Obj3(k1, v1, k2, v2, k3, v3) == JObj(<<Key(k1), Key(k2), Key(k3)>>, <<v1, v2, v3>>)

UserMessage == Obj2("role", JStr(<<"user">>), "content", JStr(<<"Hello!">>))
TextResponse == Obj1("content", JStr(<<"Hi there!">>))
OwnTools == Obj1("some", JStr(<<"tools">>))

\* a well-formed turn whose tools are null
PlainTurn ==
    Obj2("request", Obj3("system", JStr(<<"S">>), "tools", JNull,
                         "messages", JList(<<UserMessage>>)),
         "response", TextResponse)

\* the lines a session file is made of
Lines ==
    { <<"\n">>,                                   \* a blank line
      <<"{", "bad", "\n">>,                       \* not JSON
      Dumps(PlainTurn) \o <<"\n">>,
      Dumps(Obj1("response", TextResponse)) \o <<"\n">>,   \* no request key
      Dumps(JList(<<PlainTurn>>)) \o <<"\n">> }   \* a document that is no object

RECURSIVE SeqsUpTo(_, _)
SeqsUpTo(S, n) ==
    IF n = 0 THEN {<<>>}
    ELSE LET shorter == SeqsUpTo(S, n - 1) IN
         shorter \cup {Append(q, x) : q \in {r \in shorter : Len(r) = n - 1}, x \in S}

RECURSIVE TotalLines(_, _)
TotalLines(fsys, dom) ==
    IF dom = {} THEN 0
    ELSE LET p == CHOOSE q \in dom : TRUE IN Len(fsys[p]) + TotalLines(fsys, dom \ {p})

\* the contents of the data directory: some of the paths, each with its lines
FileSystems ==
    {fsys \in UNION {[D -> SeqsUpTo(Lines, MaxLines)] : D \in SUBSET Paths} :
        TotalLines(fsys, DOMAIN fsys) <= MaxLines}

Patterns == {"*.jsonl", "b*.jsonl"}

CatalogueEntry ==
    Obj3("name", JStr(<<"github_find_repositories">>),
         "description", JStr(<<"Find repositories">>),
         "input_schema", JObj(<<>>, <<>>))

\* data/tool_catalogue.json: absent, cut short, an empty list, a list of entries
CatalogueMissing == [exists |-> FALSE, text |-> <<>>]
CatalogueCutShort == [exists |-> TRUE, text |-> <<"[", "{", "\n">>]
CatalogueEmpty == [exists |-> TRUE, text |-> <<"[", "]", "\n">>]
CatalogueFull ==
    [exists |-> TRUE, text |-> DumpsIndented(JList(<<CatalogueEntry>>), 0) \o <<"\n">>]
Catalogues == {CatalogueMissing, CatalogueCutShort, CatalogueEmpty, CatalogueFull}

\* a field a document leaves out
Absent == [t |-> "absent"]

\* the dict of the fields that are not left out, in the order given
RECURSIVE MakeObj(_, _)
MakeObj(names, vals) ==
    IF Len(names) = 0 THEN JObj(<<>>, <<>>)
    ELSE LET rest == MakeObj(Tail(names), Tail(vals)) IN
         IF Head(vals) = Absent THEN rest
         ELSE JObj(<<Key(Head(names))>> \o rest.keys, <<Head(vals)>> \o rest.vals)

ToolUse ==
    JObj(<<Key("type"), Key("id"), Key("name"), Key("input")>>,
         <<JStr(<<"tool_use">>), JStr(<<"call_123">>), JStr(<<"search">>),
           Obj1("query", JStr(<<"test">>))>>)

\* a tool use whose input holds a quote, a backslash and a newline
QuotedToolUse ==
    JObj(<<Key("type"), Key("id"), Key("name"), Key("input")>>,
         <<JStr(<<"tool_use">>), JStr(<<"call_456">>), JStr(<<"write">>),
           Obj1("text", JStr(<<"say", "\"", "hi", "\"", "\\", "\n">>))>>)

Systems == {Absent, JNull, JStr(<<"S">>)}
ToolsValues == {Absent, JNull, JList(<<>>), JObj(<<>>, <<>>), OwnTools, JList(<<CatalogueEntry>>)}
MessageValues ==
    { UserMessage,
      Obj2("role", JStr(<<"assistant">>), "content", JStr(<<"<|", "end", "|>">>)),
      Obj1("content", JStr(<<"Hello!">>)),      \* no role
      Obj1("role", JStr(<<"user">>)),           \* no content
      JStr(<<"Hello!">>) }                      \* not an object
MessagesValues == {Absent, JNull} \cup {JList(m) : m \in SeqsUpTo(MessageValues, MaxMessages)}
ResponseValues ==
    { JNull, JObj(<<>>, <<>>), TextResponse,
      Obj1("content", JList(<<>>)), Obj1("content", JList(<<ToolUse>>)),
      Obj1("content", JList(<<QuotedToolUse, ToolUse>>)),
      Obj1("content", JObj(<<>>, <<>>)) }

\* the documents process_session_turn is called with
Turns ==
    { MakeObj(<<"request", "response">>,
              <<MakeObj(<<"system", "tools", "messages">>, <<s, t, m>>), r>>) :
          s \in Systems, t \in ToolsValues, m \in MessagesValues, r \in ResponseValues }
    \cup { JList(<<PlainTurn>>), JNull,
           Obj1("request", JObj(<<>>, <<>>)),       \* no response key
           Obj1("response", TextResponse),          \* no request key
           Obj2("request", JNull, "response", TextResponse) }

NotCalled == Raise("not called", JNull, 0)

NotRaised == [exc |-> "none", from |-> "none"]

\* the state of the functions that are not being called
NotInjected == Throws("not called")
NoReport == [exc |-> "not called", printed |-> <<>>]

inject == <<prompt, injected>>
split == <<eval_files, train_examples, eval_examples, train_data, eval_data>>
stats == <<examples, report>>

InjectIdle == prompt = JNull /\ injected = NotInjected
SplitIdle ==
    /\ eval_files = <<>>
    /\ train_examples = <<>>
    /\ eval_examples = <<>>
    /\ train_data = <<>>
    /\ eval_data = <<>>
StatsIdle == examples = <<>> /\ report = NoReport

-----------------------------------------------------------------------------
(* load_training_data as a generator that is iterated to its end.           *)

Init ==
    /\ data_dir_exists \in BOOLEAN
    /\ fs \in IF data_dir_exists THEN FileSystems ELSE {<<>>}
    /\ inject_catalog \in BOOLEAN
    \* without injection the catalogue is never opened (line 64)
    /\ catalogue \in IF inject_catalog THEN Catalogues \ {CatalogueEmpty} ELSE {CatalogueMissing}
    /\ file_patterns \in SeqsUpTo(Patterns, MaxPatterns)
    /\ inject_preamble \in BOOLEAN
    /\ pc = "pattern"
    /\ pattern_idx = 1
    /\ files = <<>>
    /\ file_idx = 0
    /\ line_num = 0
    /\ yielded = <<>>
    /\ warnings = <<>>
    /\ raised = NotRaised
    /\ turn_data = JNull
    /\ result = NotCalled
    /\ previous = NotCalled
    /\ InjectIdle /\ SplitIdle /\ StatsIdle

inputs == <<data_dir_exists, fs, catalogue, file_patterns, inject_preamble, inject_catalog>>
direct == <<turn_data, result, previous, inject, split, stats>>

\* line 125-129: the next pattern; its files are listed and the first is opened
NextPattern ==
    /\ pc = "pattern"
    /\ pattern_idx <= Len(file_patterns)
    /\ LET listing == load_session_files(data_dir_exists, fs, file_patterns[pattern_idx]) IN
       IF listing.exc # "none"
       THEN /\ pc' = "raised"
            /\ raised' = [exc |-> listing.exc, from |-> "load_session_files"]
            /\ UNCHANGED <<files, file_idx, line_num, pattern_idx>>
       ELSE IF Len(listing.val) = 0
       THEN \* nothing to loop over: on to the next pattern
            /\ files' = listing.val
            /\ pattern_idx' = pattern_idx + 1
            /\ UNCHANGED <<pc, file_idx, line_num, raised>>
       ELSE /\ pc' = "line"
            /\ files' = listing.val
            /\ file_idx' = 1
            /\ line_num' = 0
            /\ UNCHANGED <<raised, pattern_idx>>
    /\ UNCHANGED <<inputs, direct, yielded, warnings>>

\* the effect of the try statement on the generator: h is what HandleLine found
Deliver(h) ==
    CASE h.act = "yield" ->
             /\ yielded' = Append(yielded, [example |-> h.example,
                                            pattern |-> pattern_idx,
                                            file |-> files[file_idx],
                                            line |-> line_num'])
             /\ UNCHANGED <<pc, warnings, raised>>
      [] h.act = "warn" ->
             /\ warnings' = Append(warnings, [text |-> h.warning,
                                              pattern |-> pattern_idx,
                                              file |-> files[file_idx],
                                              line |-> line_num'])
             /\ UNCHANGED <<pc, yielded, raised>>
      [] h.act = "raise" ->
             /\ pc' = "raised"
             /\ raised' = [exc |-> h.exc, from |-> "process_session_turn"]
             /\ UNCHANGED <<yielded, warnings>>

\* lines 130-141: one line of the open file
ReadLine ==
    /\ pc = "line"
    /\ line_num < Len(fs[files[file_idx]])
    /\ line_num' = line_num + 1
    /\ LET line == fs[files[file_idx]][line_num'] IN
       IF IsBlank(line)
       THEN UNCHANGED <<pc, yielded, warnings, raised>>
       ELSE Deliver(HandleLine(line, inject_preamble, inject_catalog, catalogue))
    /\ UNCHANGED <<inputs, direct, pattern_idx, files, file_idx>>

\* the end of the open file: the next file of the pattern, or the next pattern
EndOfFile ==
    /\ pc = "line"
    /\ line_num = Len(fs[files[file_idx]])
    /\ IF file_idx < Len(files)
       THEN /\ file_idx' = file_idx + 1
            /\ line_num' = 0
            /\ UNCHANGED <<pc, pattern_idx>>
       ELSE /\ pc' = "pattern"
            /\ pattern_idx' = pattern_idx + 1
            /\ UNCHANGED <<file_idx, line_num>>
    /\ UNCHANGED <<inputs, direct, files, yielded, warnings, raised>>

\* the patterns are exhausted: the generator returns
Finish ==
    /\ pc = "pattern"
    /\ pattern_idx > Len(file_patterns)
    /\ pc' = "done"
    /\ UNCHANGED <<inputs, direct, pattern_idx, files, file_idx, line_num,
                   yielded, warnings, raised>>

Next == NextPattern \/ ReadLine \/ EndOfFile \/ Finish

Spec == Init /\ [][Next]_vars

-----------------------------------------------------------------------------
(* process_session_turn called directly, once, on one document.             *)

loader == <<data_dir_exists, fs, file_patterns, pattern_idx, files, file_idx,
            line_num, yielded, warnings, raised>>

LoaderIdle ==
    /\ data_dir_exists = FALSE
    /\ fs = <<>>
    /\ file_patterns = <<>>
    /\ pattern_idx = 1
    /\ files = <<>>
    /\ file_idx = 0
    /\ line_num = 0
    /\ yielded = <<>>
    /\ warnings = <<>>
    /\ raised = NotRaised

TurnIdle == turn_data = JNull /\ result = NotCalled /\ previous = NotCalled

InitTurn ==
    /\ turn_data \in Turns
    /\ inject_preamble \in BOOLEAN
    /\ inject_catalog \in BOOLEAN
    /\ catalogue \in Catalogues
    /\ result = NotCalled
    /\ pc = "call"
    /\ data_dir_exists = FALSE
    /\ fs = <<>>
    /\ file_patterns = <<>>
    /\ pattern_idx = 1
    /\ files = <<>>
    /\ file_idx = 0
    /\ line_num = 0
    /\ yielded = <<>>
    /\ warnings = <<>>
    /\ raised = NotRaised
    /\ previous = NotCalled
    /\ InjectIdle /\ SplitIdle /\ StatsIdle

CallTurn ==
    /\ pc = "call"
    /\ result' = process_session_turn(turn_data, inject_preamble, inject_catalog, catalogue)
    /\ turn_data' = TurnAfter(turn_data, inject_preamble, inject_catalog, catalogue)
    /\ pc' = "returned"
    /\ UNCHANGED <<loader, inject_preamble, inject_catalog, catalogue,
                   previous, inject, split, stats>>

\* the same call once more: same record, same flags, same catalogue file
CallAgain ==
    /\ pc = "returned"
    /\ previous' = result
    /\ result' = process_session_turn(turn_data, inject_preamble, inject_catalog, catalogue)
    /\ turn_data' = TurnAfter(turn_data, inject_preamble, inject_catalog, catalogue)
    /\ pc' = "repeated"
    /\ UNCHANGED <<loader, inject_preamble, inject_catalog, catalogue,
                   inject, split, stats>>

NextTurn == CallTurn \/ CallAgain

SpecTurn == InitTurn /\ [][NextTurn]_vars

-----------------------------------------------------------------------------
(* inject_system_additions called directly, once, on one system prompt.     *)

MaxPromptLen == 3   \* longest system prompt, in atoms

PromptAtoms == {"S", "\n", "<TOOL_PREAMBLE>"}

\* the values passed as system_prompt: texts, and the None of a null system
SystemPrompts == {JStr(t) : t \in SeqsUpTo(PromptAtoms, MaxPromptLen)} \cup {JNull}

InitInject ==
    /\ prompt \in SystemPrompts
    /\ inject_preamble \in BOOLEAN
    /\ injected = NotInjected
    /\ pc = "inject"
    /\ inject_catalog = FALSE
    /\ catalogue = CatalogueMissing
    /\ LoaderIdle /\ TurnIdle /\ SplitIdle /\ StatsIdle

CallInject ==
    /\ pc = "inject"
    /\ injected' = inject_system_additions(prompt, inject_preamble)
    /\ pc' = "injected"
    /\ UNCHANGED <<loader, turn_data, result, previous, prompt, inject_preamble,
                   inject_catalog, catalogue, split, stats>>

NextInject == CallInject

SpecInject == InitInject /\ [][NextInject]_vars

-----------------------------------------------------------------------------
(* lab/train_lora.py: prepare_datasets, from the loaded lists to the split. *)

MaxExamples == 21       \* most examples the loader yields for the training patterns
MaxEvalExamples == 2    \* most examples the loader yields for the evaluation patterns

\* line 38 with round() in place of int()
SplitIdx_Rounded(n) == (n * 9 + 5) \div 10

\* line 38: int(len(train_examples) * 0.9).  The product is a double that is
\* never below the exact 9n/10 (the double 0.9 is above nine tenths, and a
\* multiple of ten gives the integer exactly), and int() truncates it.
SplitIdx(n) == (n * 9) \div 10

\* two examples as the loader yields them without injection: the one of
\* PlainTurn, and the one of a turn with its own tools and a tool call response
TextExample ==
    BuildExample(GetItem(PlainTurn, Key("request")), TextResponse, JStr(<<"S">>), JNull, 0).example
ToolCallsExample ==
    BuildExample(Obj1("tools", OwnTools), Obj1("content", JList(<<ToolUse>>)),
                 JStr(<<>>), OwnTools, 0).example

\* a loaded list of n examples, of the two kinds in turn
Loaded(n) == [i \in 1..n |-> IF i % 2 = 1 THEN TextExample ELSE ToolCallsExample]

InitSplit ==
    /\ eval_files \in {<<>>, <<"b*.jsonl">>}
    /\ train_examples \in {Loaded(n) : n \in 0..MaxExamples}
    /\ eval_examples \in IF eval_files = <<>> THEN {<<>>}
                         ELSE {Loaded(n) : n \in 0..MaxEvalExamples}
    /\ train_data = <<>>
    /\ eval_data = <<>>
    /\ pc = "prepare"
    /\ inject_preamble = FALSE
    /\ inject_catalog = FALSE
    /\ catalogue = CatalogueMissing
    /\ LoaderIdle /\ TurnIdle /\ InjectIdle /\ StatsIdle

\* lines 35-48
PrepareDatasets ==
    /\ pc = "prepare"
    /\ IF eval_files = <<>>
       THEN LET split_idx == SplitIdx(Len(train_examples)) IN
            /\ train_data' = SubSeq(train_examples, 1, split_idx)
            /\ eval_data' = SubSeq(train_examples, split_idx + 1, Len(train_examples))
       ELSE /\ train_data' = train_examples
            /\ eval_data' = eval_examples
    /\ pc' = "prepared"
    /\ UNCHANGED <<loader, turn_data, result, previous, inject, stats, inject_preamble,
                   inject_catalog, catalogue, eval_files, train_examples, eval_examples>>

NextSplit == PrepareDatasets

SpecSplit == InitSplit /\ [][NextSplit]_vars

-----------------------------------------------------------------------------
(* lab/check_data.py: show_statistics.                                      *)

MaxStatsExamples == 4   \* longest list given to show_statistics

\* len(text) of a str: the characters of its atoms
RECURSIVE CharCount(_)
CharCount(text) == IF text = <<>> THEN 0 ELSE Len(Head(text)) + CharCount(Tail(text))

\* len() of an object: TypeError for None and bool
Sized(v) == v.t \in {"str", "list", "obj"}
LenOf(v) == IF v.t = "str" THEN CharCount(v.s) ELSE PyLen(v)

\* sum(f(ex) for ex in exs), with f given as the sequence of its values
RECURSIVE Sum(_)
Sum(values) == IF values = <<>> THEN 0 ELSE Head(values) + Sum(Tail(values))

\* a / b of two ints, kept as the fraction; b is not 0
Quotient(a, b) == [num |-> a, den |-> b]

\* one print() of a label and the value formatted into it
Printed(label, value) == [label |-> label, value |-> value]

\* lines 96-98: the count and the averages, 0 for an empty list (lines 93-94)
Totals(exs, total_input_chars, total_output_chars) ==
    << Printed("Total examples", Len(exs)),
       Printed("Average input length",
               IF Len(exs) > 0 THEN Quotient(total_input_chars, Len(exs)) ELSE 0),
       Printed("Average output length",
               IF Len(exs) > 0 THEN Quotient(total_output_chars, Len(exs)) ELSE 0),
       Printed("Response types:", 0) >>

\* lines 100-102: count and count/total_examples*100 of one kind
Share(label, count, total_examples) ==
    Printed(label, [count |-> count, percent |-> Quotient(count * 100, total_examples)])

\* show_statistics(examples): [exc, printed], the exception that ends the
\* call ("none" when it returns) and what it printed before
show_statistics(exs) ==
    IF \E i \in 1..Len(exs) : ~Sized(exs[i].output)
    THEN [exc |-> "TypeError", printed |-> <<Printed("DATASET STATISTICS", 0)>>]
    ELSE LET totals ==
                 <<Printed("DATASET STATISTICS", 0)>>
                 \o Totals(exs,
                           Sum([i \in 1..Len(exs) |-> CharCount(exs[i].input)]),
                           Sum([i \in 1..Len(exs) |-> LenOf(exs[i].output)]))
         IN IF Len(exs) = 0
            THEN [exc |-> "ZeroDivisionError", printed |-> totals]
            ELSE [exc |-> "none",
                  printed |-> totals \o
                      << Share("Text responses",
                               Cardinality({i \in 1..Len(exs) :
                                   exs[i].metadata.response_type = "text"}), Len(exs)),
                         Share("Tool call responses",
                               Cardinality({i \in 1..Len(exs) :
                                   exs[i].metadata.response_type = "tool_calls"}), Len(exs)),
                         Share("Examples with tools available",
                               Cardinality({i \in 1..Len(exs) :
                                   exs[i].metadata.has_tools}), Len(exs)) >>]

\* the example of a turn whose response.content is null: its output is None
NullOutputExample ==
    BuildExample(JObj(<<>>, <<>>), Obj1("content", JNull), JStr(<<>>), JNull, 0).example

\* the lists load_training_data yields: none, or some of these examples
StatsExamples == {TextExample, ToolCallsExample, NullOutputExample}

InitStats ==
    /\ examples \in SeqsUpTo(StatsExamples, MaxStatsExamples)
    /\ report = NoReport
    /\ pc = "stats"
    /\ inject_preamble = FALSE
    /\ inject_catalog = FALSE
    /\ catalogue = CatalogueMissing
    /\ LoaderIdle /\ TurnIdle /\ InjectIdle /\ SplitIdle

\* lines 72-73 of main: show_statistics(examples)
ShowStatistics ==
    /\ pc = "stats"
    /\ report' = show_statistics(examples)
    /\ pc' = "reported"
    /\ UNCHANGED <<loader, turn_data, result, previous, inject, split, examples,
                   inject_preamble, inject_catalog, catalogue>>

NextStats == ShowStatistics

SpecStats == InitStats /\ [][NextStats]_vars

-----------------------------------------------------------------------------
(* Vocabulary of the properties of load_training_data.                      *)

\* a SessionTurn: request and response are objects, the system prompt a
\* string, the messages a list of objects with a role and a content
WellFormedTurn(d) ==
    /\ IsDict(d)
    /\ HasKey(d, Key("request")) /\ IsDict(GetItem(d, Key("request")))
    /\ HasKey(d, Key("response")) /\ IsDict(GetItem(d, Key("response")))
    /\ IsStr(Get(GetItem(d, Key("request")), Key("system"), JStr(<<>>)))
    /\ IsList(Get(GetItem(d, Key("request")), Key("messages"), JList(<<>>)))
    /\ \A m \in {Get(GetItem(d, Key("request")), Key("messages"), JList(<<>>)).items[i] :
                    i \in 1..Len(Get(GetItem(d, Key("request")), Key("messages"), JList(<<>>)).items)} :
           IsDict(m) /\ HasKey(m, Key("role")) /\ HasKey(m, Key("content"))

\* an object without the request key or without the response key
LacksRequiredKey(d) ==
    IsDict(d) /\ (~HasKey(d, Key("request")) \/ ~HasKey(d, Key("response")))

\* what a line of a session file holds
Classify(line) ==
    IF IsBlank(line) THEN "blank"
    ELSE LET d == Loads(line) IN
         IF ~d.ok THEN "unparseable"
         ELSE IF LacksRequiredKey(d.val) THEN "lacks a required key"
         ELSE IF ~WellFormedTurn(d.val) THEN "not a turn"
         ELSE IF Get(GetItem(d.val, Key("request")), Key("tools"), JNull) = JNull
              THEN "turn with null tools"
              ELSE "turn with tools"

\* Classify, tabulated over the lines of the session files
LineKind == [line \in Lines |-> Classify(line)]

ValidLine(line) == LineKind[line] \in {"turn with null tools", "turn with tools"}
RejectedLine(line) == LineKind[line] \in {"unparseable", "lacks a required key"}
NullToolsLine(line) == LineKind[line] = "turn with null tools"

\* the catalogue document is present and parseable
CatalogueLoadable == catalogue.exists /\ Loads(catalogue.text).ok

\* the files the p-th pattern matches
MatchedBy(p) == {path \in DOMAIN fs : Matches(file_patterns[p], path)}

\* the generator is inside the loop over the lines, or left it by an exception
InPass == pc = "line" \/ (pc = "raised" /\ raised.from = "process_session_turn")

\* line n of file f has been read while the p-th pattern was processed
Visited(p, f, n) ==
    \/ p < pattern_idx /\ f \in MatchedBy(p) /\ n \in 1..Len(fs[f])
    \/ /\ p = pattern_idx
       /\ InPass
       /\ \E k \in 1..Len(files) :
              /\ files[k] = f
              /\ \/ k < file_idx /\ n \in 1..Len(fs[f])
                 \/ k = file_idx /\ n \in 1..line_num

YieldsAt(p, f, n) ==
    {i \in 1..Len(yielded) :
        yielded[i].pattern = p /\ yielded[i].file = f /\ yielded[i].line = n}
WarningsAt(p, f, n) ==
    {i \in 1..Len(warnings) :
        warnings[i].pattern = p /\ warnings[i].file = f /\ warnings[i].line = n}

DataDirectoryMissing == [exc |-> "FileNotFoundError", from |-> "load_session_files"]
NoFilesMatched == [exc |-> "ValueError", from |-> "load_session_files"]

-----------------------------------------------------------------------------
(* C1: per-record errors never abort the stream: whatever a non-blank line *)
(* holds, iterating load_training_data does not raise because of that      *)
(* line.  Only the catalogue being unavailable may make the processing of  *)
(* a line abort the load.                                                  *)
C1_PerRecordErrorsNeverAbort ==
    raised.from = "process_session_turn" => raised.exc = "FileNotFoundError"

-----------------------------------------------------------------------------
(* C2: skip and continue.  For a file made of valid lines, lines that fail *)
(* JSON parsing, lines the transformer rejects for a missing required key  *)
(* and blank lines: one example per valid line, in line order; one warning *)
(* per rejected line with the file path and the 1-based line number; blank *)
(* lines counted but silent; no exception.                                 *)

FileOfValidAndRejectedLines(f) ==
    \A n \in 1..Len(fs[f]) :
        IsBlank(fs[f][n]) \/ ValidLine(fs[f][n]) \/ RejectedLine(fs[f][n])

SkipAndContinue(f) ==
    /\ raised.from = "process_session_turn" => files[file_idx] # f
    /\ \A p \in 1..Len(file_patterns), n \in 1..Len(fs[f]) :
           IF Visited(p, f, n)
           THEN /\ ValidLine(fs[f][n]) =>
                       Cardinality(YieldsAt(p, f, n)) = 1 /\ WarningsAt(p, f, n) = {}
                /\ RejectedLine(fs[f][n]) =>
                       Cardinality(WarningsAt(p, f, n)) = 1 /\ YieldsAt(p, f, n) = {}
                /\ IsBlank(fs[f][n]) =>
                       YieldsAt(p, f, n) = {} /\ WarningsAt(p, f, n) = {}
           ELSE YieldsAt(p, f, n) = {} /\ WarningsAt(p, f, n) = {}
    /\ \A i, j \in 1..Len(yielded) :
           (i < j /\ yielded[i].pattern = yielded[j].pattern
                  /\ yielded[i].file = f /\ yielded[j].file = f)
               => yielded[i].line < yielded[j].line

\* the claim as stated: whatever the state of the catalogue
C2_SkipAndContinue ==
    \A f \in DOMAIN fs : FileOfValidAndRejectedLines(f) => SkipAndContinue(f)

\* C2 as amended: the claim holds when catalog injection is disabled or the
\* catalogue document is present and parseable
C2_SkipAndContinueWithCatalogue ==
    (~inject_catalog \/ CatalogueLoadable) => C2_SkipAndContinue

\* a file with a valid and a rejected line has been read to its end
C2_Witness ==
    /\ pc = "done"
    /\ ~inject_catalog \/ CatalogueLoadable
    /\ \E f \in DOMAIN fs :
           /\ \E n \in 1..Len(fs[f]) : ValidLine(fs[f][n])
           /\ \E n \in 1..Len(fs[f]) : RejectedLine(fs[f][n])
           /\ \E p \in 1..Len(file_patterns) : f \in MatchedBy(p)
    /\ Len(yielded) > 0
    /\ Len(warnings) > 0

-----------------------------------------------------------------------------
(* C3: CatalogUnavailable is fatal.  With catalog injection enabled and    *)
(* the catalogue missing or not parseable, reading a turn whose tools are  *)
(* null aborts the load: the line is neither skipped with a warning nor    *)
(* yielded.                                                                *)
C3_CatalogUnavailableIsFatal ==
    (inject_catalog /\ ~CatalogueLoadable) =>
        \A f \in DOMAIN fs : \A p \in 1..Len(file_patterns), n \in 1..Len(fs[f]) :
            (Visited(p, f, n) /\ NullToolsLine(fs[f][n])) =>
                /\ pc = "raised"
                /\ raised.from = "process_session_turn"
                /\ p = pattern_idx /\ files[file_idx] = f /\ line_num = n
                /\ WarningsAt(p, f, n) = {}
                /\ YieldsAt(p, f, n) = {}

-----------------------------------------------------------------------------
(* C4: with a data directory that does not exist and a non-empty list of   *)
(* patterns, load_training_data raises DataDirectoryMissing before it      *)
(* yields anything, whatever the flags.                                    *)
C4_MissingDirectoryRaises ==
    (~data_dir_exists /\ Len(file_patterns) > 0) =>
        /\ yielded = <<>>
        /\ warnings = <<>>
        /\ \/ pc = "pattern" /\ pattern_idx = 1 /\ raised = NotRaised
           \/ pc = "raised" /\ raised = DataDirectoryMissing

C4_Witness ==
    /\ ~data_dir_exists
    /\ Len(file_patterns) > 1
    /\ inject_preamble /\ ~inject_catalog
    /\ pc = "raised"

-----------------------------------------------------------------------------
(* C5: a pattern that matches no file of an existing directory makes the   *)
(* load abort with NoFilesMatched when that pattern is reached: the load   *)
(* never completes, and nothing of that pattern or a later one is yielded. *)
C5_NoFilesMatchedAborts ==
    \A p \in 1..Len(file_patterns) :
        (data_dir_exists /\ MatchedBy(p) = {}) =>
            /\ pc # "done"
            /\ pattern_idx <= p
            /\ \A i \in 1..Len(yielded) : yielded[i].pattern < p
            /\ (pattern_idx = p /\ pc # "pattern") =>
                   (pc = "raised" /\ raised = NoFilesMatched)

\* the second pattern matched nothing, after the first one yielded
C5_Witness ==
    /\ pc = "raised"
    /\ raised = NoFilesMatched
    /\ pattern_idx = 2
    /\ Len(yielded) > 0

-----------------------------------------------------------------------------
(* C6: the examples are yielded in the order of (pattern index, rank of    *)
(* the file path in sorted order, line number); their number is bounded by *)
(* the lines of the matched files; the generator returns only after the    *)
(* last line of the last file of the last pattern.                         *)
Before(a, b) ==
    \/ a.pattern < b.pattern
    \/ a.pattern = b.pattern /\ PathRank(a.file) < PathRank(b.file)
    \/ a.pattern = b.pattern /\ a.file = b.file /\ a.line < b.line

C6_YieldOrder ==
    /\ \A i, j \in 1..Len(yielded) : i < j => Before(yielded[i], yielded[j])
    /\ \A i \in 1..Len(yielded) :
           /\ yielded[i].pattern \in 1..Len(file_patterns)
           /\ yielded[i].file \in MatchedBy(yielded[i].pattern)
           /\ yielded[i].line \in 1..Len(fs[yielded[i].file])
    /\ pc = "done" =>
           /\ pattern_idx = Len(file_patterns) + 1
           /\ Len(file_patterns) > 0 =>
                  /\ files = Sorted(MatchedBy(Len(file_patterns)))
                  /\ file_idx = Len(files)
                  /\ line_num = Len(fs[files[file_idx]])

\* examples of two files under one pattern, and of a later pattern whose file
\* sorts before the file of an earlier one
C6_Witness ==
    /\ pc = "done"
    /\ \E i, j \in 1..Len(yielded) :
           i < j /\ yielded[i].pattern = yielded[j].pattern
                 /\ yielded[i].file # yielded[j].file
    /\ \E i, j \in 1..Len(yielded) :
           i < j /\ yielded[i].pattern < yielded[j].pattern
                 /\ PathRank(yielded[i].file) > PathRank(yielded[j].file)

-----------------------------------------------------------------------------
(* Vocabulary of the properties of process_session_turn.                    *)

\* the call returned an example
Returned == pc = "returned" /\ result.exc = "none"

\* the request of the turn, when the turn has one that is an object
HasRequest ==
    IsDict(turn_data) /\ HasKey(turn_data, Key("request"))
                       /\ IsDict(GetItem(turn_data, Key("request")))
Request == GetItem(turn_data, Key("request"))

\* the tools value the turn supplies: null when the key is absent
OwnToolsValue == Get(Request, Key("tools"), JNull)

\* the effective tools value the attachment rule prescribes
EffectiveTools ==
    IF OwnToolsValue # JNull THEN OwnToolsValue
    ELSE IF inject_catalog THEN Loads(catalogue.text).val
    ELSE JNull

\* the effective system prompt as the system block shows it
EffectiveSystemText ==
    (IF inject_preamble THEN TOOL_PREAMBLE \o BlankLine ELSE <<>>)
    \o PyFormat(Get(Request, Key("system"), JStr(<<>>)))

SystemBlock == Block(<<"system">>, EffectiveSystemText)

\* one block per message, tagged with its role
MessageBlocksOf(messages) ==
    [i \in 1..Len(messages) |->
        Block(PyFormat(GetItem(messages[i], Key("role"))),
              PyFormat(GetItem(messages[i], Key("content"))))]

IsPrefix(a, b) == Len(a) <= Len(b) /\ \A i \in 1..Len(a) : a[i] = b[i]

\* the text holds the opening tag of a tools block
ContainsToolsTag(text) ==
    \E i \in 1..(Len(text) - 2) :
        text[i] = "<|" /\ text[i + 1] = "tools" /\ text[i + 2] = "|>"

-----------------------------------------------------------------------------
(* C7: the catalog attachment rule.  The effective tools value is the one  *)
(* the turn supplies whenever that is not null (also an empty list or      *)
(* object, with either setting of inject_catalog); it is the loaded        *)
(* catalogue when the turn's tools are null or absent and inject_catalog   *)
(* is set; it is null when they are null or absent and inject_catalog is   *)
(* not set.  The catalogue is loaded in the second case only.              *)
C7_CatalogAttachment ==
    pc = "returned" =>
        /\ result.loads \in {0, 1}
        /\ result.loads = 1 => (HasRequest /\ OwnToolsValue = JNull /\ inject_catalog)
        /\ result.exc = "none" =>
               /\ OwnToolsValue # JNull =>
                      result.tools = OwnToolsValue /\ result.loads = 0
               /\ (OwnToolsValue = JNull /\ inject_catalog) =>
                      /\ catalogue.exists
                      /\ result.tools = Loads(catalogue.text).val
                      /\ result.loads = 1
               /\ (OwnToolsValue = JNull /\ ~inject_catalog) =>
                      result.tools = JNull /\ result.loads = 0

\* an empty tools list of the turn is kept although injection is enabled
C7_Witness ==
    /\ Returned
    /\ inject_catalog
    /\ catalogue = CatalogueFull
    /\ OwnToolsValue = JList(<<>>)
    /\ result.tools = JList(<<>>)

-----------------------------------------------------------------------------
(* C8: the tools block.                                                     *)

\* the input text is the system block, then the tools block holding the
\* effective tools with 2-space indentation, then the message blocks
ToolsBlockAfterSystem ==
    /\ result.example.input =
           Join(BlankLine,
                <<SystemBlock, Block(<<"tools">>, DumpsIndented(EffectiveTools, 0))>>
                \o MessageBlocksOf(Get(Request, Key("messages"), JList(<<>>)).items))
    /\ EffectiveTools = OwnTools =>
           IsPrefix(SystemBlock \o BlankLine
                    \o <<"<|", "tools", "|>", "\n",
                         "{", "\n",
                         "  ", "\"", "some", "\"", ":", " ", "\"", "tools", "\"", "\n",
                         "}", "\n",
                         "<|", "end", "|>">>,
                    result.example.input)

\* C8 as stated: whenever the effective tools value of a turn is not null,
\* the input text holds a tools block with the tools document serialised
\* with 2-space indentation, right after the system block and before every
\* message block.
C8_ToolsBlockWheneverNotNull ==
    (Returned /\ EffectiveTools # JNull) => ToolsBlockAfterSystem

\* C8 as amended: whenever the effective tools value of a turn is not null
\* and not empty, the input text holds that tools block in that place.
C8_ToolsBlockWheneverNotEmpty ==
    (Returned /\ EffectiveTools # JNull /\ PyLen(EffectiveTools) > 0)
        => ToolsBlockAfterSystem

\* the turn's own tools object, two messages after it
C8_Witness ==
    /\ Returned
    /\ EffectiveTools = OwnTools
    /\ Len(Get(Request, Key("messages"), JList(<<>>)).items) = 2
    /\ ContainsToolsTag(result.example.input)

-----------------------------------------------------------------------------
(* C9: for every turn and flag combination the input text of the example   *)
(* begins with the system block, and it holds a tools block if and only if *)
(* the effective tools value of the turn is neither null nor empty.        *)
C9_SystemFirstToolsIffNotEmpty ==
    Returned =>
        /\ IsPrefix(SystemBlock, result.example.input)
        /\ ContainsToolsTag(result.example.input)
               <=> (EffectiveTools # JNull /\ PyLen(EffectiveTools) > 0)

\* an injected catalogue that is an empty list: no tools block
C9_Witness ==
    /\ Returned
    /\ inject_preamble
    /\ OwnToolsValue = JNull /\ inject_catalog /\ EffectiveTools = JList(<<>>)
    /\ ~ContainsToolsTag(result.example.input)

-----------------------------------------------------------------------------
(* C10: for every turn and flag combination metadata.has_tools is true if  *)
(* and only if the effective tools value (the turn's own or the injected   *)
(* catalogue) is not null.                                                 *)
C10_HasToolsIffNotNull ==
    Returned => (result.example.metadata.has_tools <=> EffectiveTools # JNull)

\* has_tools is set for an empty tools object, which has no tools block
C10_Witness ==
    /\ Returned
    /\ EffectiveTools = JObj(<<>>, <<>>)
    /\ result.example.metadata.has_tools
    /\ ~ContainsToolsTag(result.example.input)

-----------------------------------------------------------------------------
(* Vocabulary of the properties of the output and the metadata.             *)

\* response.content of the turn, "" when the response leaves it out
ResponseContent ==
    Get(GetItem(turn_data, Key("response")), Key("content"), JStr(<<>>))

\* request.messages of the turn, [] when the request leaves it out
RequestMessages == Get(Request, Key("messages"), JList(<<>>))

-----------------------------------------------------------------------------
(* C11: metadata.response_type is "tool_calls" if and only if               *)
(* response.content is a sequence, the empty one included, and "text"       *)
(* otherwise; it is a function of the response alone, whatever the          *)
(* injection flags.                                                         *)
C11_ResponseType ==
    Returned =>
        /\ result.example.metadata.response_type \in {"tool_calls", "text"}
        /\ result.example.metadata.response_type = "tool_calls"
               <=> ResponseContent.t = "list"

\* an empty sequence is a tool call response, with both injections
C11_Witness ==
    /\ Returned
    /\ inject_preamble /\ inject_catalog
    /\ ResponseContent = JList(<<>>)
    /\ result.example.metadata.response_type = "tool_calls"

-----------------------------------------------------------------------------
(* C12: the output.  A response.content that is a string is the output      *)
(* verbatim; one that is a sequence of tool-use blocks is serialised on a   *)
(* single line that parses back to an equal sequence: as many elements, in  *)
(* the same order, each with all its fields.                                *)
C12_OutputConstruction ==
    Returned =>
        /\ ResponseContent.t = "str" => result.example.output = ResponseContent
        /\ ResponseContent.t = "list" =>
               /\ result.example.output.t = "str"
               /\ \A i \in 1..Len(result.example.output.s) :
                      result.example.output.s[i] # "\n"
               /\ LET back == Loads(result.example.output.s) IN
                  /\ back.ok
                  /\ back.val.t = "list"
                  /\ Len(back.val.items) = Len(ResponseContent.items)
                  /\ \A i \in 1..Len(ResponseContent.items) :
                         back.val.items[i] = ResponseContent.items[i]

\* two tool uses, the first with a quote, a backslash and a newline in a field
C12_Witness ==
    /\ Returned
    /\ ResponseContent = JList(<<QuotedToolUse, ToolUse>>)
    /\ Loads(result.example.output.s).val.items[1] = QuotedToolUse

-----------------------------------------------------------------------------
(* C13: metadata.num_messages is the number of entries of request.messages, *)
(* with each of the four combinations of the injection flags.               *)
C13_NumMessages ==
    Returned =>
        result.example.metadata.num_messages =
            (IF HasKey(Request, Key("messages")) THEN Len(GetItem(Request, Key("messages")).items)
             ELSE 0)

\* two messages, a preamble and a catalogue injected
C13_Witness ==
    /\ Returned
    /\ inject_preamble /\ inject_catalog
    /\ OwnToolsValue = JNull
    /\ ContainsToolsTag(result.example.input)
    /\ result.example.metadata.num_messages = 2

-----------------------------------------------------------------------------
(* C14: inject_system_additions.  With the flag disabled the result is the  *)
(* prompt unchanged; with the flag enabled it is the preamble text, then a  *)
(* blank-line separator, then the prompt: the preamble comes first and both *)
(* are held in full.                                                        *)
C14_InjectSystemAdditions ==
    pc = "injected" =>
        /\ ~inject_preamble => injected = [exc |-> "none", val |-> prompt]
        /\ (inject_preamble /\ prompt.t = "str") =>
               /\ injected.exc = "none"
               /\ injected.val.t = "str"
               /\ injected.val.s = TOOL_PREAMBLE \o <<"\n", "\n">> \o prompt.s
               /\ SubSeq(injected.val.s, 1, Len(TOOL_PREAMBLE)) = TOOL_PREAMBLE
               /\ SubSeq(injected.val.s, Len(injected.val.s) - Len(prompt.s) + 1,
                         Len(injected.val.s)) = prompt.s

\* a prompt that itself holds the opening tag of the preamble
C14_Witness ==
    /\ pc = "injected"
    /\ inject_preamble
    /\ prompt = JStr(<<"S", "\n", "<TOOL_PREAMBLE>">>)
    /\ injected.exc = "none"

-----------------------------------------------------------------------------
(* C15: missing fields are signalled.                                       *)

\* the message is an object without a role or without a content
LacksField(m) ==
    m.t = "obj" /\ (~HasKey(m, Key("role")) \/ ~HasKey(m, Key("content")))

\* request.messages is a list and one of its messages lacks a field
SomeMessageLacksField ==
    /\ HasRequest
    /\ RequestMessages.t = "list"
    /\ \E k \in 1..Len(RequestMessages.items) : LacksField(RequestMessages.items[k])

\* nothing the call does before it reads the first message that lacks a
\* field fails: the preamble can be joined to the system prompt, the
\* catalogue loads if it is needed, the messages before are objects
ReachesLackingMessage ==
    /\ inject_preamble => Get(Request, Key("system"), JStr(<<>>)).t = "str"
    /\ (inject_catalog /\ OwnToolsValue = JNull) => CatalogueLoadable
    /\ \E k \in 1..Len(RequestMessages.items) :
           /\ LacksField(RequestMessages.items[k])
           /\ \A j \in 1..(k - 1) :
                  RequestMessages.items[j].t = "obj" /\ ~LacksField(RequestMessages.items[j])

\* C15 as stated: the call fails with MalformedTurn (KeyError) and returns no
\* example whenever the turn lacks the request key or the response key, or
\* a message of request.messages lacks a role or a content.
C15_MissingFieldsAreMalformedTurn ==
    (pc = "returned" /\ turn_data.t = "obj") =>
        ((LacksRequiredKey(turn_data) \/ SomeMessageLacksField) =>
            (result.exc = "KeyError" /\ result.example = NoExample))

\* C15 as amended: in each of these cases the call signals an error and
\* returns no example; the error is MalformedTurn (KeyError) when the
\* request or the response key is missing, and for a message that lacks a
\* field when nothing the call does before it reads that message fails.
C15_MissingFieldsAreSignalled ==
    (pc = "returned" /\ turn_data.t = "obj") =>
        /\ LacksRequiredKey(turn_data) =>
               (result.exc = "KeyError" /\ result.example = NoExample)
        /\ (~LacksRequiredKey(turn_data) /\ SomeMessageLacksField) =>
               /\ result.exc # "none"
               /\ result.example = NoExample
               /\ ReachesLackingMessage => result.exc = "KeyError"

\* the second message has no content; preamble and catalogue are injected
C15_Witness ==
    /\ pc = "returned"
    /\ inject_preamble /\ inject_catalog /\ catalogue = CatalogueFull
    /\ SomeMessageLacksField
    /\ RequestMessages.items = <<UserMessage, Obj1("role", JStr(<<"user">>))>>
    /\ OwnToolsValue = JNull
    /\ result.exc = "KeyError"

-----------------------------------------------------------------------------
(* C16: the block structure of the input text.                              *)

EndTag == <<"<|", "end", "|>">>

\* a block: the tag of its role, its body on the lines after, the end tag
ClosedBlock(role, body) ==
    <<"<|">> \o role \o <<"|>">> \o <<"\n">> \o body \o <<"\n">> \o EndTag

\* the blocks one after the other, a blank line between two of them
RECURSIVE BlankLineSeparated(_)
BlankLineSeparated(blocks) ==
    IF blocks = <<>> THEN <<>>
    ELSE IF Len(blocks) = 1 THEN blocks[1]
    ELSE blocks[1] \o <<"\n", "\n">> \o BlankLineSeparated(Tail(blocks))

\* the number of end tags in a text
CountEndTags(text) ==
    Cardinality({i \in 1..(Len(text) - 2) :
                    text[i] = "<|" /\ text[i + 1] = "end" /\ text[i + 2] = "|>"})

RECURSIVE SumOver(_)
SumOver(numbers) == IF numbers = <<>> THEN 0 ELSE Head(numbers) + SumOver(Tail(numbers))

\* one block per message of the request, in arrival order, opened by the tag
\* of the role and holding the content
BlocksOfMessages ==
    [i \in 1..Len(RequestMessages.items) |->
        ClosedBlock(GetItem(RequestMessages.items[i], Key("role")).s,
                    GetItem(RequestMessages.items[i], Key("content")).s)]

\* C16: the input text is the blank-line separated concatenation of exactly
\* one system block, at most one tools block, and one block per message of
\* the request in arrival order, tagged with the role of the message and
\* holding its content verbatim; every block is closed by the end tag, so
\* the structure contributes as many end tags as there are blocks.
C16_InputBlockStructure ==
    Returned =>
        LET system_block == ClosedBlock(<<"system">>, EffectiveSystemText)
            tools_block == ClosedBlock(<<"tools">>, DumpsIndented(EffectiveTools, 0))
            without == <<system_block>> \o BlocksOfMessages
            with == <<system_block, tools_block>> \o BlocksOfMessages
            blocks == IF result.example.input = BlankLineSeparated(with)
                      THEN with ELSE without
        IN /\ result.example.input = BlankLineSeparated(blocks)
           /\ Len(blocks) \in {1 + Len(RequestMessages.items),
                               2 + Len(RequestMessages.items)}
           /\ CountEndTags(result.example.input) =
                  Len(blocks)
                  + SumOver([i \in 1..Len(RequestMessages.items) |->
                        CountEndTags(GetItem(RequestMessages.items[i], Key("content")).s)])

\* a tools block and two messages, one of which holds an end tag in its content
C16_Witness ==
    /\ Returned
    /\ ContainsToolsTag(result.example.input)
    /\ Len(RequestMessages.items) = 2
    /\ RequestMessages.items[2] =
           Obj2("role", JStr(<<"assistant">>), "content", JStr(<<"<|", "end", "|>">>))
    /\ CountEndTags(result.example.input) = 5

-----------------------------------------------------------------------------
-----------------------------------------------------------------------------
(* C18: the split of prepare_datasets when no evaluation files are          *)
(* configured.  For every number n of loaded examples the training set is   *)
(* the first floor(0.9 n) of them and the evaluation set the others, in the *)
(* order of the loader; together they hold every loaded example once; for   *)
(* 1 <= n < 10 the evaluation set is not empty and for n = 1 the training   *)
(* set is empty.                                                            *)
C18_TrainEvalSplit ==
    (pc = "prepared" /\ eval_files = <<>>) =>
        LET n == Len(train_examples) IN
        /\ 10 * Len(train_data) <= 9 * n
        /\ 9 * n < 10 * (Len(train_data) + 1)
        /\ Len(train_data) + Len(eval_data) = n
        /\ \A i \in 1..Len(train_data) : train_data[i] = train_examples[i]
        /\ \A i \in 1..Len(eval_data) : eval_data[i] = train_examples[Len(train_data) + i]
        /\ (1 <= n /\ n < 10) => Len(eval_data) > 0
        /\ n = 1 => train_data = <<>>

\* eleven loaded examples: nine to train, two to evaluate
C18_Witness ==
    /\ pc = "prepared"
    /\ eval_files = <<>>
    /\ Len(train_examples) = 11
    /\ Len(train_data) = 9
    /\ eval_data = <<ToolCallsExample, TextExample>>

-----------------------------------------------------------------------------
(* C19: the statistics report completes without error for every list of    *)
(* examples the loader can yield, the empty list included: the averages    *)
(* and the three percentages are all printed.                              *)
C19_StatisticsComplete ==
    pc = "reported" =>
        /\ report.exc = "none"
        /\ Len(report.printed) = 8
        /\ \A k \in 6..8 : report.printed[k].value.percent.den > 0

====
